---- MODULE Spec2Model ----
(***************************************************************************)
(* web-push-encryption: the payload encryption pipeline (encrypt and its   *)
(* helpers) and the delivery layer (auth-token registry, sendWebPush).     *)
(*                                                                         *)
(* Byte strings (Node Buffers) are records [length, data]: length is the   *)
(* exact byte length the code produces, data is a sequence of tokens that  *)
(* identifies the content (one token per byte for text, one symbolic token *)
(* for opaque key material, a bracketed term for the output of a           *)
(* cryptographic primitive).  createContext and createInfo work byte by   *)
(* byte: they write into a fresh buffer at the offsets the code uses.      *)
(* The delivery layer is modelled in both forms the sources hold: the one  *)
(* with the auth-token registry and the later one with the GCM API key.    *)
(***************************************************************************)
EXTENDS Integers, Sequences, FiniteSets, TLC

VARIABLES
  authTokens,   \* push.js: const authTokens = []
  encryptLog,   \* every call of encrypt(): arguments and outcome, in order
  randomLog,    \* every value crypto.randomBytes returned, in order
  ecdhLog,      \* every key pair ECDH.generateKeys produced, in order
  lookupLog,    \* the last getAuthToken() call: endpoint and returned value
  sendLog,      \* every call of sendWebPush(): arguments and synchronous outcome
  requests,     \* every request.post() made, with the state of its promise
                \* and the calls of resolve and reject its callback has made
  gcmAuthToken, \* the later push.js: let gcmAuthToken
  helperLog     \* the last call of a helper on its own: name, arguments, result

vars == <<authTokens, encryptLog, randomLog, ecdhLog, lookupLog, sendLog, requests,
          gcmAuthToken, helperLog>>

----------------------------------------------------------------------------
(* Bounds of the model *)

MaxEncryptCalls == 1
MaxFreshCalls == 2
MaxAuthTokens == 2
MaxSends == 1
MaxSendTokens == 1
MaxSendCalls == 1

----------------------------------------------------------------------------
(* Values *)

Buf(n, d) == [length |-> n, data |-> d]

NoBuffer == Buf(0, <<>>)

\* A JavaScript string that is not defined (undefined / missing property).
Undefined == [defined |-> FALSE, chars |-> <<>>]

Str(s) == [defined |-> TRUE, chars |-> s]

\* JavaScript truthiness of a string-valued property: defined and non-empty.
Truthy(s) == s.defined /\ Len(s.chars) > 0

\* String.prototype.indexOf(pattern) !== -1, on sequences of characters.
Contains(s, p) ==
  \E i \in 0..(Len(s) - Len(p)) :
    \A j \in 1..Len(p) : s[i + j] = p[j]

\* String.prototype.startsWith(prefix)
StartsWith(s, p) == Len(s) >= Len(p) /\ SubSeq(s, 1, Len(p)) = p

\* A message is a JavaScript string named `text`; `ascii` of its characters
\* take one byte in UTF-8 and `wide` of them take three.
Message(t, a, w) == [type |-> "string", text |-> t, ascii |-> a, wide |-> w]

\* A missing message argument.
NoMessage == [type |-> "undefined", text |-> "", ascii |-> 0, wide |-> 0]

\* A message argument that is an array: truthy, and not a string.
ArrayMessage == [type |-> "object", text |-> "[{hello: 'world'}, ...]", ascii |-> 0, wide |-> 0]

\* !message: undefined or the empty string.
Falsy(message) ==
  \/ message.type = "undefined"
  \/ message.type = "string" /\ message.ascii + message.wide = 0

\* new Buffer(message, 'utf8')
BufferFromUtf8(message) ==
  Buf(message.ascii + 3 * message.wide, <<"utf8", message.text>>)

\* A base64 string property of a subscription: `sig` characters before the
\* '=' padding, naming the bytes `id`.  sig = 0 is the empty string.
B64(id, sig) == [defined |-> TRUE, sig |-> sig, id |-> id]

NoB64 == [defined |-> FALSE, sig |-> 0, id |-> "undefined"]

TruthyB64(s) == s.defined /\ s.sig > 0

\* new Buffer(string, 'base64'): four characters give three bytes, the
\* remainder is truncated.
BufferFromBase64(s) == Buf((s.sig * 3) \div 4, <<s.id>>)

\* A subscription object; `defined` is FALSE for a missing argument, and
\* keys.defined is FALSE for a subscription without a keys property.
Subscription(endpoint, keys) == [defined |-> TRUE, endpoint |-> endpoint, keys |-> keys]

Keys(p256dh, auth) == [defined |-> TRUE, p256dh |-> p256dh, auth |-> auth]

NoKeys == [defined |-> FALSE, p256dh |-> NoB64, auth |-> NoB64]

NoSubscription == [defined |-> FALSE, endpoint |-> Undefined, keys |-> NoKeys]

\* An Error object: the fixed text of its message and the numbers
\* interpolated into it, in order.
Error(text, values) == [text |-> text, values |-> values]

NoError == Error("", <<>>)

----------------------------------------------------------------------------
(* encrypt.js: constants *)

PADDING_BUFFER == Buf(2, <<"00", "00">>)

ONE_BUFFER == Buf(1, <<"01">>)

ContentEncodingText ==
  <<"C","o","n","t","e","n","t","-","E","n","c","o","d","i","n","g",":"," ">>

AUTH_INFO == Buf(23, ContentEncodingText \o <<"a","u","t","h","NUL">>)

\* A limit three bytes short.
MAX_PAYLOAD_LENGTH_Short == 4080 - 3

MAX_PAYLOAD_LENGTH == 4080

----------------------------------------------------------------------------
(* Node crypto primitives, by what they return *)

\* A salt drawn once and kept for later calls.
randomBytes_Cached(size, value) ==
  Buf(size, IF randomLog = <<>> THEN value ELSE randomLog[1])

\* crypto.randomBytes(size): `size` bytes, whose content `value` is the
\* random source's choice.
randomBytes(size, value) == Buf(size, value)

\* A key pair generated once and kept for later calls.
generateKeys_Cached(ecdh) ==
  IF ecdhLog = <<>> THEN ecdh.publicKey ELSE ecdhLog[1].publicKey

\* crypto.createECDH('prime256v1').generateKeys(): the public key of the
\* fresh pair, an uncompressed point.
generateKeys(ecdh) == ecdh.publicKey

\* The byte strings that encode a point of the curve (uncompressed, 65
\* bytes, or compressed, 33 bytes).
IsCurvePoint(buffer) ==
  \/ buffer.length = 65 /\ buffer.data = <<"clientPoint">>
  \/ buffer.length = 65 /\ buffer.data = <<"clientPoint2">>
  \/ buffer.length = 33 /\ buffer.data = <<"clientPointCompressed">>

\* ECDH.computeSecret(otherPublicKey): the 32-byte x coordinate of the
\* shared point.  It throws unless the argument encodes a curve point.
computeSecret(ecdh, clientPublicKey) ==
  Buf(32, <<"ecdh(">> \o ecdh.privateKey \o <<",">> \o clientPublicKey.data \o <<")">>)

computeSecretError == Error("Failed to translate Buffer to a EC_POINT", <<>>)

\* crypto.createHmac('sha256', key).update(a).update(b).digest()
hmacSha256(key, updates) ==
  Buf(32, <<"hmac(">> \o key.data \o <<";">> \o updates \o <<")">>)

\* Buffer.prototype.slice(0, end)
slice(buffer, end) ==
  Buf(IF end < buffer.length THEN end ELSE buffer.length,
      <<"slice(">> \o buffer.data \o <<";", ToString(end), ")">>)

\* cipher.update(data) of an AES-128-GCM cipher: as many bytes as it is given.
cipherUpdate(key, iv, before, data) ==
  Buf(data.length,
      <<"gcm(">> \o key.data \o <<";">> \o iv.data \o <<";">> \o before
        \o <<";">> \o data.data \o <<")">>)

\* cipher.getAuthTag(): 16 bytes.
getAuthTag(key, iv, input) ==
  Buf(16, <<"tag(">> \o key.data \o <<";">> \o iv.data \o <<";">> \o input \o <<")">>)

\* Buffer.concat(list)
concat3(a, b, c) == Buf(a.length + b.length + c.length, a.data \o b.data \o c.data)

----------------------------------------------------------------------------
(* encrypt.js: helpers *)

\* writeUInt16BE(value, offset): two bytes, high then low.
UInt16BE(value) == <<ToString(value \div 256), ToString(value % 256)>>

\* What a function that may throw does: `error` is NoError when it returns
\* `value`.
Return(value) == [error |-> NoError, value |-> value]

Throw(error) == [error |-> error, value |-> NoBuffer]

Threw(r) == r.error # NoError

\* new Buffer(size): `size` bytes of memory that was not cleared; "?" is a
\* byte whose value is whatever the memory held.
newBuffer(size) == [i \in 1..size |-> "?"]

\* The names of the opaque byte strings of the inputs, and for each the
\* tokens of its bytes: the i-th byte of the byte string named k is k[i].
OpaqueNames ==
  { "clientPoint", "clientPoint2", "clientPointCompressed", "notAPoint", "garbage15",
    "serverPublic1", "serverPublic2", "serverShort", "serverLong", "clientShort",
    "clientLong" }

OpaqueBytes ==
  [name \in OpaqueNames |-> [i \in 1..66 |-> name \o "[" \o ToString(i) \o "]"]]

\* The bytes of a buffer one by one.
Bytes(buffer) ==
  IF Len(buffer.data) = buffer.length THEN buffer.data
  ELSE SubSeq(OpaqueBytes[buffer.data[1]], 1, buffer.length)

\* buf.write(string, offset), source.copy(buf, offset) and
\* buf.writeUInt16BE(value, offset), by their effect on the bytes of buf:
\* `values` is laid from `offset` (counted from 0) on, as far as buf reaches.
writeAt(bytes, values, offset) ==
  LET room == IF offset >= Len(bytes) THEN 0 ELSE Len(bytes) - offset
      written == IF Len(values) < room THEN Len(values) ELSE room
  IN  SubSeq(bytes, 1, offset) \o SubSeq(values, 1, written)
        \o SubSeq(bytes, offset + written + 1, Len(bytes))

\* The bytes createContext writes once the lengths are checked.
contextBytes(clientPublicKey, serverPublicKey) ==
  LET context0 == newBuffer(1 + 2 + 65 + 2 + 65)
      context1 == writeAt(context0, <<"NUL">>, 0)
      context2 == writeAt(context1, UInt16BE(clientPublicKey.length), 1)
      context3 == writeAt(context2, Bytes(clientPublicKey), 3)
      context4 == writeAt(context3, UInt16BE(serverPublicKey.length), 68)
  IN  writeAt(context4, Bytes(serverPublicKey), 70)

\* createContext without its check of the client key's length.
createContext_NoClientCheck(clientPublicKey, serverPublicKey) ==
  IF serverPublicKey.length # 65
  THEN Throw(Error("Invalid server public key length", <<>>))
  ELSE Return(Buf(1 + 2 + 65 + 2 + 65, contextBytes(clientPublicKey, serverPublicKey)))

\* createContext with the server key copied one byte early.
createContext_ServerAt69(clientPublicKey, serverPublicKey) ==
  IF clientPublicKey.length # 65
  THEN Throw(Error("Invalid client public key length", <<>>))
  ELSE IF serverPublicKey.length # 65
  THEN Throw(Error("Invalid server public key length", <<>>))
  ELSE Return(Buf(1 + 2 + 65 + 2 + 65,
                  writeAt(contextBytes(clientPublicKey, serverPublicKey),
                          Bytes(serverPublicKey), 69)))

createContext(clientPublicKey, serverPublicKey) ==
  IF clientPublicKey.length # 65
  THEN Throw(Error("Invalid client public key length", <<>>))
  ELSE IF serverPublicKey.length # 65
  THEN Throw(Error("Invalid server public key length", <<>>))
  ELSE Return(Buf(1 + 2 + 65 + 2 + 65, contextBytes(clientPublicKey, serverPublicKey)))

\* createInfo without the zero byte after the type.
createInfo_NoSeparator(type, context) ==
  IF context.length # 135
  THEN Throw(Error("Context argument has invalid size", <<>>))
  ELSE
    LET l == Len(type)
        info0 == newBuffer(18 + l + 1 + 5 + 135)
        info1 == writeAt(info0, ContentEncodingText, 0)
        info2 == writeAt(info1, type, 18)
        info4 == writeAt(info2, <<"P","-","2","5","6">>, 19 + l)
    IN  Return(Buf(18 + l + 1 + 5 + 135, writeAt(info4, Bytes(context), 24 + l)))

createInfo(type, context) ==
  IF context.length # 135
  THEN Throw(Error("Context argument has invalid size", <<>>))
  ELSE
    LET l == Len(type)
        info0 == newBuffer(18 + l + 1 + 5 + 135)
        info1 == writeAt(info0, ContentEncodingText, 0)
        info2 == writeAt(info1, type, 18)
        info3 == writeAt(info2, <<"NUL">>, 18 + l)
        info4 == writeAt(info3, <<"P","-","2","5","6">>, 19 + l)
    IN  Return(Buf(18 + l + 1 + 5 + 135, writeAt(info4, Bytes(context), 24 + l)))

hkdf(salt, ikm, info, length) ==
  LET prk == hmacSha256(salt, ikm.data) IN
  slice(hmacSha256(prk, info.data \o <<"+">> \o ONE_BUFFER.data), length)

encryptPayload(plaintext, contentEncryptionKey, nonce) ==
  LET paddingResult == cipherUpdate(contentEncryptionKey, nonce, <<>>, PADDING_BUFFER)
      textResult == cipherUpdate(contentEncryptionKey, nonce, PADDING_BUFFER.data, plaintext)
  IN  concat3(paddingResult, textResult,
              getAuthTag(contentEncryptionKey, nonce, PADDING_BUFFER.data \o plaintext.data))

----------------------------------------------------------------------------
(* encrypt.js: encrypt *)

\* The outcome of one encrypt() call.  drewSalt / generatedKeys tell whether
\* the call reached crypto.randomBytes / ECDH.generateKeys before it ended.
EncryptReturned(ciphertext, salt, serverPublicKey) ==
  [status |-> "returned", error |-> NoError, ciphertext |-> ciphertext, salt |-> salt,
   serverPublicKey |-> serverPublicKey, drewSalt |-> TRUE, generatedKeys |-> TRUE]

EncryptThrew(error, reachedRandom) ==
  [status |-> "threw", error |-> error, ciphertext |-> NoBuffer, salt |-> NoBuffer,
   serverPublicKey |-> NoBuffer, drewSalt |-> reachedRandom, generatedKeys |-> reachedRandom]

\* The steps of encrypt() after the shared secret is computed.
encryptDerive(plaintext, clientPublicKey, clientAuthToken, salt, serverPublicKey, sharedSecret) ==
  LET prk == hkdf(clientAuthToken, sharedSecret, AUTH_INFO, 32)
      context == createContext(clientPublicKey, serverPublicKey)
  IN
  IF Threw(context) THEN EncryptThrew(context.error, TRUE)
  ELSE
    LET contentEncryptionKeyInfo == createInfo(<<"a","e","s","g","c","m">>, context.value)
        nonceInfo == createInfo(<<"n","o","n","c","e">>, context.value)
    IN
    IF Threw(contentEncryptionKeyInfo) THEN EncryptThrew(contentEncryptionKeyInfo.error, TRUE)
    ELSE IF Threw(nonceInfo) THEN EncryptThrew(nonceInfo.error, TRUE)
    ELSE
      LET contentEncryptionKey == hkdf(salt, prk, contentEncryptionKeyInfo.value, 16)
          nonce == hkdf(salt, prk, nonceInfo.value, 12)
          ciphertext == encryptPayload(plaintext, contentEncryptionKey, nonce)
      IN  EncryptReturned(ciphertext, salt, serverPublicKey)

\* encrypt(message, subscription).  `random` is what crypto.randomBytes
\* returns if this call asks for it, `ecdh` the key pair generateKeys makes.
encrypt(message, subscription, random, ecdh) ==
  LET plaintext == BufferFromUtf8(message) IN
  IF plaintext.length > MAX_PAYLOAD_LENGTH
  THEN EncryptThrew(Error("Payload is too large: ${plaintext.length} bytes",
                          <<plaintext.length>>), FALSE)
  ELSE IF \/ ~subscription.defined
          \/ ~subscription.keys.defined
          \/ ~TruthyB64(subscription.keys.p256dh)
          \/ ~TruthyB64(subscription.keys.auth)
  THEN EncryptThrew(Error("Subscription has no encryption details", <<>>), FALSE)
  ELSE
    LET clientPublicKey == BufferFromBase64(subscription.keys.p256dh)
        clientAuthToken == BufferFromBase64(subscription.keys.auth)
        salt == randomBytes(16, random)
        serverPublicKey == generateKeys(ecdh)
    IN
    IF ~IsCurvePoint(clientPublicKey)
    THEN EncryptThrew(computeSecretError, TRUE)
    ELSE encryptDerive(plaintext, clientPublicKey, clientAuthToken, salt, serverPublicKey,
                       computeSecret(ecdh, clientPublicKey))

----------------------------------------------------------------------------
(* push.js: constants and helpers *)

GCM_URL ==
  <<"h","t","t","p","s",":","/","/","a","n","d","r","o","i","d",".","g","o","o","g","l","e","a","p","i","s",".","c","o","m","/","g","c","m","/","s","e","n","d">>

TEMP_GCM_URL ==
  <<"h","t","t","p","s",":","/","/","g","c","m","-","h","t","t","p",".","g","o","o","g","l","e","a","p","i","s",".","c","o","m","/","g","c","m">>

\* String.prototype.indexOf: the first offset (from 0) where p occurs in s,
\* -1 when there is none.
IndexOf(s, p) ==
  IF Contains(s, p)
  THEN CHOOSE i \in 0..(Len(s) - Len(p)) :
         /\ \A j \in 1..Len(p) : s[i + j] = p[j]
         /\ \A k \in 0..(i - 1) : \E j \in 1..Len(p) : s[k + j] # p[j]
  ELSE -1

\* String.prototype.replace(pattern, replacement) with a string pattern:
\* the first occurrence only.
Replace(s, p, r) ==
  LET i == IndexOf(s, p) IN
  IF i = -1 THEN s
  ELSE SubSeq(s, 1, i) \o r \o SubSeq(s, i + Len(p) + 1, Len(s))

\* The value of the byte a token of a buffer's data stands for, when the
\* token is a number in decimal.
ByteValue(token) == CHOOSE n \in 0..255 : ToString(n) = token

\* The i-th byte (from 1) of the opaque byte strings the random source and
\* the key generator return.  The contents hold every kind of 6-bit group:
\* those base64 writes as '+' and '/', and those it writes as letters.
OpaqueOctet(token, i) ==
  IF token = "salt1" THEN <<251, 239, 190, 255, 255, 255, 0, 16, 131, 105>>[((i - 1) % 10) + 1]
  ELSE IF token = "salt2" THEN (i * 29 + 3) % 256
  ELSE IF token = "serverPublic1" THEN (IF i = 1 THEN 4 ELSE (i * 7 + 248) % 256)
  ELSE IF token = "serverPublic2" THEN (IF i = 1 THEN 4 ELSE (i * 13 + 62) % 256)
  ELSE 0

OpaqueTokens == {"salt1", "salt2", "serverPublic1", "serverPublic2"}

\* The bytes of a buffer, as numbers.
Octets(buffer) ==
  IF Len(buffer.data) = 1 /\ buffer.data[1] \in OpaqueTokens
  THEN [i \in 1..buffer.length |-> OpaqueOctet(buffer.data[1], i)]
  ELSE [i \in 1..buffer.length |-> ByteValue(buffer.data[i])]

Base64Alphabet ==
  <<"A","B","C","D","E","F","G","H","I","J","K","L","M","N","O","P","Q","R","S","T","U","V","W","X","Y","Z",
    "a","b","c","d","e","f","g","h","i","j","k","l","m","n","o","p","q","r","s","t","u","v","w","x","y","z",
    "0","1","2","3","4","5","6","7","8","9","+","/">>

\* buffer.toString('base64'): every group of three bytes gives four
\* characters of the alphabet; a last group of one or two bytes is filled
\* with zero bits and its unused characters are '='.
toStringBase64(buffer) ==
  LET octets == Octets(buffer)
      n == buffer.length
      at(k) == IF k <= n THEN octets[k] ELSE 0
      sextet(group, position) ==
        LET b0 == at(3 * group + 1)
            b1 == at(3 * group + 2)
            b2 == at(3 * group + 3)
        IN  IF position = 0 THEN b0 \div 4
            ELSE IF position = 1 THEN (b0 % 4) * 16 + (b1 \div 16)
            ELSE IF position = 2 THEN (b1 % 16) * 4 + (b2 \div 64)
            ELSE b2 % 64
      char(k) ==
        LET group == (k - 1) \div 4
            position == (k - 1) % 4
        IN  IF position >= 2 /\ 3 * group + position > n THEN "="
            ELSE Base64Alphabet[sextet(group, position) + 1]
  IN  [k \in 1..(4 * ((n + 2) \div 3)) |-> char(k)]

\* String.prototype.replace(/c/g, by) for a single character c; `by` is a
\* string of one character, or empty.
ReplaceAll(s, c, by) ==
  IF by = <<>>
  THEN SelectSeq(s, LAMBDA x : x # c)
  ELSE [i \in 1..Len(s) |-> IF s[i] = c THEN by[1] ELSE s[i]]

\* A url-safe encoder that leaves the '=' padding in place.
ub64_KeepPadding(buffer) ==
  ReplaceAll(ReplaceAll(toStringBase64(buffer), "+", <<"-">>), "/", <<"_">>)

\* buffer.toString('base64').replace(/\+/g, '-').replace(/\//g, '_')
\*   .replace(/\=/g, '')
ub64(buffer) ==
  ReplaceAll(ReplaceAll(ReplaceAll(toStringBase64(buffer), "+", <<"-">>), "/", <<"_">>),
             "=", <<>>)

\* name + '=' + ub64(value)
createHeaderField(name, value) == name \o <<"=">> \o ub64(value)

\* A check of the subscription alone: any message is let through.
InvalidArguments_EndpointOnly(subscription, message) ==
  \/ ~subscription.defined
  \/ ~Truthy(subscription.endpoint)

\* The condition under which sendWebPush throws before doing anything:
\* !subscription || !subscription.endpoint || !message ||
\* typeof message !== 'string'
InvalidArguments(subscription, message) ==
  \/ ~subscription.defined
  \/ ~Truthy(subscription.endpoint)
  \/ Falsy(message)
  \/ message.type # "string"

----------------------------------------------------------------------------
(* push.js: the auth-token registry *)

RECURSIVE getAuthTokenFrom(_, _)
getAuthTokenFrom(i, endpoint) ==
  IF i > Len(authTokens) THEN Undefined
  ELSE IF Contains(endpoint, authTokens[i].pattern)
       THEN Str(authTokens[i].token)
       ELSE getAuthTokenFrom(i + 1, endpoint)

\* A scan from the last entry down: the latest registration wins.
RECURSIVE getAuthTokenDownFrom(_, _)
getAuthTokenDownFrom(i, endpoint) ==
  IF i < 1 THEN Undefined
  ELSE IF Contains(endpoint, authTokens[i].pattern)
       THEN Str(authTokens[i].token)
       ELSE getAuthTokenDownFrom(i - 1, endpoint)

getAuthToken_LastWins(endpoint) == getAuthTokenDownFrom(Len(authTokens), endpoint)

\* A lookup that never finds an entry.
getAuthToken_NoMatch(endpoint) == Undefined

\* getAuthToken(endpoint): the loop from the first entry.
getAuthToken(endpoint) == getAuthTokenFrom(1, endpoint)

\* authTokens.push({pattern, token})
authTokensPush(pattern, token) == Append(authTokens, [pattern |-> pattern, token |-> token])

\* The value a settled or pending promise holds, and what the transport
\* hands to its callback.
Settlement(error, statusCode, statusMessage, body) ==
  [error |-> error, statusCode |-> statusCode, statusMessage |-> statusMessage, body |-> body]

NoSettlement == Settlement("", 0, "", "")

\* What the promise of the later sendWebPush holds: `code` is
\* 'expired-subscription' for the object it rejects a 4xx response with, and
\* empty for an object without that property.
Outcome(code, error, statusCode, statusMessage, body) ==
  [code |-> code, error |-> error, statusCode |-> statusCode,
   statusMessage |-> statusMessage, body |-> body]

NoOutcome == Outcome("", "", 0, "", "")

SendRecord(subscription, message, status, error, request) ==
  [subscription |-> subscription, message |-> message, status |-> status,
   error |-> error, request |-> request]

----------------------------------------------------------------------------
(* Inputs *)

EXAMPLE_ENDPOINT ==
  <<"h","t","t","p","s",":","/","/","e","x","a","m","p","l","e","-","e","n","d","p","o","i","n","t",".","c","o","m","/","e","x","a","m","p","l","e","/","1","2","3","4">>

GCM_ENDPOINT == GCM_URL \o <<"/","A",":","9">>

VALID_P256DH == B64("clientPoint", 87)

VALID_AUTH == B64("auth16", 22)

VALID_SUBSCRIPTION == Subscription(Str(EXAMPLE_ENDPOINT), Keys(VALID_P256DH, VALID_AUTH))

VALID_SUBSCRIPTION_2 ==
  Subscription(Str(EXAMPLE_ENDPOINT), Keys(B64("clientPoint2", 87), B64("auth16b", 22)))

NO_ENDPOINT_SUBSCRIPTION == Subscription(Undefined, Keys(VALID_P256DH, VALID_AUTH))

GCM_SUBSCRIPTION == Subscription(Str(GCM_ENDPOINT), Keys(VALID_P256DH, VALID_AUTH))

\* auth of 16 significant characters: 12 bytes
INVALID_AUTH_SUBSCRIPTION ==
  Subscription(Str(EXAMPLE_ENDPOINT), Keys(VALID_P256DH, B64("auth12", 16)))

\* auth of 23 significant characters: 17 bytes
LONG_AUTH_SUBSCRIPTION ==
  Subscription(Str(EXAMPLE_ENDPOINT), Keys(VALID_P256DH, B64("auth17", 23)))

\* p256dh of 21 significant characters: 15 bytes, no curve point
INVALID_P256DH_SUBSCRIPTION ==
  Subscription(Str(EXAMPLE_ENDPOINT), Keys(B64("garbage15", 21), VALID_AUTH))

\* p256dh of 65 bytes that are no point of the curve
OFF_CURVE_SUBSCRIPTION ==
  Subscription(Str(EXAMPLE_ENDPOINT), Keys(B64("notAPoint", 87), VALID_AUTH))

\* p256dh that is a compressed point: 44 characters, 33 bytes
COMPRESSED_SUBSCRIPTION ==
  Subscription(Str(EXAMPLE_ENDPOINT), Keys(B64("clientPointCompressed", 44), VALID_AUTH))

INVALID_BOTH_SUBSCRIPTION ==
  Subscription(Str(EXAMPLE_ENDPOINT), Keys(B64("garbage15", 21), B64("auth12", 16)))

SUBSCRIPTION_NO_KEYS == Subscription(Str(EXAMPLE_ENDPOINT), NoKeys)

SUBSCRIPTION_NO_P256DH == Subscription(Str(EXAMPLE_ENDPOINT), Keys(NoB64, VALID_AUTH))

SUBSCRIPTION_NO_AUTH == Subscription(Str(EXAMPLE_ENDPOINT), Keys(VALID_P256DH, NoB64))

SUBSCRIPTION_EMPTY_AUTH == Subscription(Str(EXAMPLE_ENDPOINT), Keys(VALID_P256DH, B64("", 0)))

Subscriptions ==
  { VALID_SUBSCRIPTION, NO_ENDPOINT_SUBSCRIPTION, INVALID_AUTH_SUBSCRIPTION,
    LONG_AUTH_SUBSCRIPTION, INVALID_P256DH_SUBSCRIPTION, OFF_CURVE_SUBSCRIPTION,
    COMPRESSED_SUBSCRIPTION, INVALID_BOTH_SUBSCRIPTION, SUBSCRIPTION_NO_KEYS,
    SUBSCRIPTION_NO_P256DH, SUBSCRIPTION_NO_AUTH, SUBSCRIPTION_EMPTY_AUTH, NoSubscription }

EXAMPLE_INPUT == Message("Hello, World.", 13, 0)

Messages ==
  { EXAMPLE_INPUT, Message("", 0, 0),
    Message("A x 4066", 4066, 0), Message("A x 4076", 4076, 0),
    Message("A x 4078", 4078, 0), Message("A x 4079", 4079, 0),
    Message("A x 4080", 4080, 0), Message("A x 4081", 4081, 0),
    Message("A x 5000", 5000, 0),
    Message("euro x 1360", 0, 1360), Message("euro x 1361", 0, 1361) }

PaddingLengths == {0, 10, 4080}

\* What the random source and the key generator can return.
Salts == { <<"salt1">>, <<"salt2">> }

KeyPair(public, private) == [publicKey |-> Buf(65, <<public>>), privateKey |-> <<private>>]

KeyPairs == { KeyPair("serverPublic1", "serverPrivate1"),
              KeyPair("serverPublic2", "serverPrivate2") }

FreshMessages == { EXAMPLE_INPUT, Message("Hello, World!", 13, 0) }

FreshSubscriptions == { VALID_SUBSCRIPTION, VALID_SUBSCRIPTION_2, INVALID_P256DH_SUBSCRIPTION }

\* Registrations on offer: a pattern that matches the example endpoint only
\* and one that matches it and the gateway's, the latter with two tokens.
Registrations ==
  { <<<<"e","x","a","m","p","l","e">>, <<"k","1">>>>,
    <<<<"c","o","m">>, <<"k","1">>>>,
    <<<<"c","o","m">>, <<"k","2">>>> }

\* Endpoints looked up: the third holds no pattern on offer in the case the
\* pattern is written in.
Endpoints ==
  { EXAMPLE_ENDPOINT, GCM_ENDPOINT,
    <<"h","t","t","p","s",":","/","/","p","u","s","h",".","t","e","s","t","/","C","O","M">> }

\* Calls of sendWebPush on offer.
Sends ==
  { <<VALID_SUBSCRIPTION, EXAMPLE_INPUT>>,
    <<GCM_SUBSCRIPTION, EXAMPLE_INPUT>> }

\* An endpoint of another service that carries the legacy gateway's URL
\* inside it.
EMBEDDED_GCM_ENDPOINT ==
  <<"h","t","t","p","s",":","/","/","p","u","s","h",".","t","e","s","t","/","?","t","o","=">>
    \o GCM_URL \o <<"/","A",":","9">>

EMBEDDED_GCM_SUBSCRIPTION ==
  Subscription(Str(EMBEDDED_GCM_ENDPOINT), Keys(VALID_P256DH, VALID_AUTH))

EMPTY_ENDPOINT_SUBSCRIPTION == Subscription(Str(<<>>), Keys(VALID_P256DH, VALID_AUTH))

\* Calls of sendWebPush on offer to the delivery layer on its own: every way
\* the arguments can be invalid, every error of the encryption pipeline, and
\* endpoints of the three kinds.
SendCalls ==
  { <<NoSubscription, EXAMPLE_INPUT>>,
    <<NoSubscription, NoMessage>>,
    <<NO_ENDPOINT_SUBSCRIPTION, EXAMPLE_INPUT>>,
    <<EMPTY_ENDPOINT_SUBSCRIPTION, EXAMPLE_INPUT>>,
    <<VALID_SUBSCRIPTION, NoMessage>>,
    <<VALID_SUBSCRIPTION, ArrayMessage>>,
    <<VALID_SUBSCRIPTION, Message("", 0, 0)>>,
    <<VALID_SUBSCRIPTION, EXAMPLE_INPUT>>,
    <<VALID_SUBSCRIPTION, Message("A x 4079", 4079, 0)>>,
    <<VALID_SUBSCRIPTION, Message("A x 4081", 4081, 0)>>,
    <<SUBSCRIPTION_NO_KEYS, EXAMPLE_INPUT>>,
    <<INVALID_AUTH_SUBSCRIPTION, EXAMPLE_INPUT>>,
    <<INVALID_P256DH_SUBSCRIPTION, EXAMPLE_INPUT>>,
    <<GCM_SUBSCRIPTION, EXAMPLE_INPUT>>,
    <<EMBEDDED_GCM_SUBSCRIPTION, EXAMPLE_INPUT>> }

\* The host of the transitional gateway: a pattern found in the URL a GCM
\* request is posted to and not in the endpoint of a GCM subscription.
TEMP_GCM_HOST ==
  <<"g","c","m","-","h","t","t","p",".","g","o","o","g","l","e","a","p","i","s",".","c","o","m">>

\* Registrations on offer to it: a pattern of the example endpoint, the
\* legacy gateway's URL with the key of the tests, an empty token, and the
\* host of the transitional gateway.
SendRegistrations ==
  { <<<<"e","x","a","m","p","l","e">>, <<"k","1">>>>,
    <<GCM_URL, <<"A","A","A","A">>>>,
    <<<<"c","o","m">>, <<>>>>,
    <<TEMP_GCM_HOST, <<"B","B","B","B">>>> }

\* Client keys on offer to createContext: three of 65 bytes, and others of
\* 0, 15, 33, 64 and 66 bytes.
ClientPublicKeys ==
  { Buf(65, <<"clientPoint">>), Buf(65, <<"clientPoint2">>), Buf(65, <<"notAPoint">>),
    Buf(33, <<"clientPointCompressed">>), Buf(15, <<"garbage15">>),
    Buf(64, <<"clientShort">>), Buf(66, <<"clientLong">>), NoBuffer }

\* Server keys on offer to it: the two the key generator makes, and others of
\* 0, 64 and 66 bytes.
ServerPublicKeys ==
  { Buf(65, <<"serverPublic1">>), Buf(65, <<"serverPublic2">>),
    Buf(64, <<"serverShort">>), Buf(66, <<"serverLong">>), NoBuffer }

\* Types on offer to createInfo: the two encrypt uses, and other ASCII
\* strings of 0 to 9 characters.
InfoTypes ==
  { <<"a","e","s","g","c","m">>, <<"n","o","n","c","e">>, <<"a","u","t","h">>, <<>>, <<"a">>,
    <<"P","-","2","5","6">>, <<"a","e","s","1","2","8","g","c","m">> }

\* Contexts on offer to it: those createContext returns, and others of 0,
\* 134 and 136 bytes.
InfoContexts ==
  { createContext(c, s).value :
      c \in { k \in ClientPublicKeys : k.length = 65 },
      s \in { k \in ServerPublicKeys : k.length = 65 } }
  \cup { NoBuffer, Buf(134, [i \in 1..134 |-> "x"]), Buf(136, [i \in 1..136 |-> "x"]) }

\* A server API key of the form setGCMAPIKey accepts: 'AIza' and 36 more
\* characters.
VALID_GCM_API_KEY == <<"A","I","z","a">> \o [i \in 1..36 |-> "x"]

\* Keys on offer to setGCMAPIKey: the valid one, one of 40 characters with
\* another prefix, and one with the prefix that is too short.
GcmApiKeys ==
  { VALID_GCM_API_KEY,
    <<"A","A","A","A">> \o [i \in 1..36 |-> "x"],
    <<"A","I","z","a","x">> }

\* Calls of the later sendWebPush(message, subscription, paddingLength) on
\* offer.
PaddedSendCalls ==
  { <<EXAMPLE_INPUT, VALID_SUBSCRIPTION, 0>>,
    <<EXAMPLE_INPUT, VALID_SUBSCRIPTION_2, 10>>,
    <<NoMessage, VALID_SUBSCRIPTION, 0>>,
    <<Message("", 0, 0), VALID_SUBSCRIPTION, 0>>,
    <<EXAMPLE_INPUT, GCM_SUBSCRIPTION, 0>>,
    <<NoMessage, GCM_SUBSCRIPTION, 0>>,
    <<EXAMPLE_INPUT, NoSubscription, 0>>,
    <<EXAMPLE_INPUT, NO_ENDPOINT_SUBSCRIPTION, 0>>,
    <<EXAMPLE_INPUT, SUBSCRIPTION_NO_KEYS, 0>>,
    <<EXAMPLE_INPUT, INVALID_P256DH_SUBSCRIPTION, 0>>,
    <<Message("A x 4081", 4081, 0), VALID_SUBSCRIPTION, 0>> }

\* What the transport can hand to the callback of the later sendWebPush: an
\* error, and responses on both sides of 400 and of 500.
StatusResponses ==
  { Settlement("ECONNRESET", 0, "", ""),
    Settlement("", 200, "OK", "sent"),
    Settlement("", 201, "Created", ""),
    Settlement("", 301, "Moved Permanently", "moved"),
    Settlement("", 399, "", ""),
    Settlement("", 400, "Bad Request", "bad"),
    Settlement("", 404, "Not Found", "gone"),
    Settlement("", 410, "Gone", "expired"),
    Settlement("", 499, "", ""),
    Settlement("", 500, "Internal Server Error", "oops"),
    Settlement("", 503, "Service Unavailable", "busy") }

\* What the transport can hand to the callback.
Responses ==
  { Settlement("ECONNRESET", 0, "", ""),
    Settlement("", 200, "OK", "sent") }

\* The same, and a response that tells of a subscription that is gone.
SendResponses == Responses \cup { Settlement("", 410, "Gone", "expired") }

----------------------------------------------------------------------------
(* Operations *)

EncryptCallRecord(message, subscription, paddingLength, random, ecdh, outcome) ==
  [message |-> message, subscription |-> subscription, paddingLength |-> paddingLength,
   random |-> random, ecdh |-> ecdh, outcome |-> outcome]

\* The effect of one run of encrypt() on the logs.
EncryptEffect(message, subscription, paddingLength, random, ecdh, outcome) ==
  /\ encryptLog' = Append(encryptLog,
       EncryptCallRecord(message, subscription, paddingLength, random, ecdh, outcome))
  /\ randomLog' = IF outcome.drewSalt THEN Append(randomLog, random) ELSE randomLog
  /\ ecdhLog' = IF outcome.generatedKeys THEN Append(ecdhLog, ecdh) ELSE ecdhLog

\* library.encrypt(message, subscription, paddingLength): the function takes
\* two parameters, a third argument is not read.
EncryptCall(message, subscription, paddingLength, random, ecdh) ==
  /\ EncryptEffect(message, subscription, paddingLength, random, ecdh,
                   encrypt(message, subscription, random, ecdh))
  /\ UNCHANGED <<authTokens, lookupLog, sendLog, requests, gcmAuthToken, helperLog>>

\* addAuthToken(pattern, token)
addAuthToken(pattern, token) ==
  /\ authTokens' = authTokensPush(pattern, token)
  /\ UNCHANGED <<encryptLog, randomLog, ecdhLog, lookupLog, sendLog, requests,
               gcmAuthToken, helperLog>>

\* A call of the exported getAuthToken(endpoint); `at` is the length of the
\* registry when it was made.
GetAuthTokenCall(endpoint) ==
  /\ lookupLog' = [called |-> TRUE, endpoint |-> endpoint, at |-> Len(authTokens),
                   result |-> getAuthToken(endpoint)]
  /\ UNCHANGED <<authTokens, encryptLog, randomLog, ecdhLog, sendLog, requests,
               gcmAuthToken, helperLog>>

\* A sendWebPush that rewrites the endpoint first and resolves the token and
\* the legacy-gateway check against the rewritten URL.
sendWebPush_RewriteFirst(subscription, message, random, ecdh) ==
  IF InvalidArguments(subscription, message)
  THEN
    /\ sendLog' = Append(sendLog, SendRecord(subscription, message, "threw",
         Error("sendWebPush() expects a subscription endpoint with an endpoint parameter and a string send with the push message.", <<>>), 0))
    /\ UNCHANGED <<authTokens, encryptLog, randomLog, ecdhLog, lookupLog, requests,
                 gcmAuthToken, helperLog>>
  ELSE
    LET endpoint == Replace(subscription.endpoint.chars, GCM_URL, TEMP_GCM_URL)
        authToken == getAuthToken(endpoint)
        payload == encrypt(message, subscription, random, ecdh)
        headers == [ TTL |-> Undefined,
                     ContentEncoding |-> Undefined,
                     Encryption |-> Str(createHeaderField(<<"s","a","l","t">>, payload.salt)),
                     CryptoKey |-> Str(createHeaderField(<<"d","h">>, payload.serverPublicKey)),
                     Authorization |-> IF Truthy(authToken)
                                       THEN Str(<<"k","e","y","=">> \o authToken.chars)
                                       ELSE Undefined ]
    IN
    /\ EncryptEffect(message, subscription, 0, random, ecdh, payload)
    /\ UNCHANGED <<authTokens, lookupLog, gcmAuthToken, helperLog>>
    /\ IF payload.status = "threw"
       THEN /\ sendLog' = Append(sendLog,
                 SendRecord(subscription, message, "threw", payload.error, 0))
            /\ UNCHANGED requests
       ELSE IF ~Truthy(authToken) /\ Contains(endpoint, TEMP_GCM_URL)
       THEN /\ sendLog' = Append(sendLog, SendRecord(subscription, message, "threw",
                 Error("GCM requires an Auth Token. Please add one using theaddAuthToken() method.", <<>>), 0))
            /\ UNCHANGED requests
       ELSE /\ requests' = Append(requests,
                 [ url |-> endpoint,
                   body |-> payload.ciphertext,
                   headers |-> headers,
                   promise |-> "pending",
                   response |-> NoSettlement,
                   calls |-> <<>>,
                   value |-> NoSettlement ])
            /\ sendLog' = Append(sendLog,
                 SendRecord(subscription, message, "promise", NoError, Len(requests) + 1))

\* sendWebPush(subscription, message), up to the return of the promise.
sendWebPush(subscription, message, random, ecdh) ==
  IF InvalidArguments(subscription, message)
  THEN
    /\ sendLog' = Append(sendLog, SendRecord(subscription, message, "threw",
         Error("sendWebPush() expects a subscription endpoint with an endpoint parameter and a string send with the push message.", <<>>), 0))
    /\ UNCHANGED <<authTokens, encryptLog, randomLog, ecdhLog, lookupLog, requests,
                 gcmAuthToken, helperLog>>
  ELSE
    LET endpoint == subscription.endpoint.chars
        authToken == getAuthToken(endpoint)
        payload == encrypt(message, subscription, random, ecdh)
        headers == [ TTL |-> Undefined,
                     ContentEncoding |-> Undefined,
                     Encryption |-> Str(createHeaderField(<<"s","a","l","t">>, payload.salt)),
                     CryptoKey |-> Str(createHeaderField(<<"d","h">>, payload.serverPublicKey)),
                     Authorization |-> IF Truthy(authToken)
                                       THEN Str(<<"k","e","y","=">> \o authToken.chars)
                                       ELSE Undefined ]
    IN
    /\ EncryptEffect(message, subscription, 0, random, ecdh, payload)
    /\ UNCHANGED <<authTokens, lookupLog, gcmAuthToken, helperLog>>
    /\ IF payload.status = "threw"
       THEN /\ sendLog' = Append(sendLog,
                 SendRecord(subscription, message, "threw", payload.error, 0))
            /\ UNCHANGED requests
       ELSE IF ~Truthy(authToken) /\ Contains(endpoint, GCM_URL)
       THEN /\ sendLog' = Append(sendLog, SendRecord(subscription, message, "threw",
                 Error("GCM requires an Auth Token. Please add one using theaddAuthToken() method.", <<>>), 0))
            /\ UNCHANGED requests
       ELSE /\ requests' = Append(requests,
                 [ url |-> Replace(endpoint, GCM_URL, TEMP_GCM_URL),
                   body |-> payload.ciphertext,
                   headers |-> headers,
                   promise |-> "pending",
                   response |-> NoSettlement,
                   calls |-> <<>>,
                   value |-> NoSettlement ])
            /\ sendLog' = Append(sendLog,
                 SendRecord(subscription, message, "promise", NoError, Len(requests) + 1))

\* A callback that rejects with an error of its own when the transport
\* reports one.
requestCallback_WrapError(i, error, statusCode, statusMessage, body) ==
  /\ i \in DOMAIN requests
  /\ requests[i].promise = "pending"
  /\ requests' = [requests EXCEPT ![i] =
       IF error # ""
       THEN [@ EXCEPT !.promise = "rejected",
                      !.calls = Append(@, "reject"),
                      !.response = Settlement(error, statusCode, statusMessage, body),
                      !.value = Settlement("Push failed", 0, "", "")]
       ELSE [@ EXCEPT !.promise = "resolved",
                      !.calls = Append(@, "resolve"),
                      !.response = Settlement(error, statusCode, statusMessage, body),
                      !.value = Settlement("", statusCode, statusMessage, body)]]
  /\ UNCHANGED <<authTokens, encryptLog, randomLog, ecdhLog, lookupLog, sendLog,
                 gcmAuthToken, helperLog>>

\* A callback that posts the request again when the transport reports an
\* error.
requestCallback_Retry(i, error, statusCode, statusMessage, body) ==
  /\ i \in DOMAIN requests
  /\ requests[i].promise = "pending"
  /\ requests' =
       IF error # ""
       THEN Append([requests EXCEPT ![i] =
                      [@ EXCEPT !.promise = "rejected",
                                !.calls = Append(@, "reject"),
                                !.response = Settlement(error, statusCode, statusMessage, body),
                                !.value = Settlement(error, 0, "", "")]],
                   requests[i])
       ELSE [requests EXCEPT ![i] =
               [@ EXCEPT !.promise = "resolved",
                         !.calls = Append(@, "resolve"),
                         !.response = Settlement(error, statusCode, statusMessage, body),
                         !.value = Settlement("", statusCode, statusMessage, body)]]
  /\ UNCHANGED <<authTokens, encryptLog, randomLog, ecdhLog, lookupLog, sendLog,
                 gcmAuthToken, helperLog>>

\* The callback request.post() is given, called by the transport with an
\* error or with a response, for the i-th request.
requestCallback(i, error, statusCode, statusMessage, body) ==
  /\ i \in DOMAIN requests
  /\ requests[i].promise = "pending"
  /\ requests' = [requests EXCEPT ![i] =
       IF error # ""
       THEN [@ EXCEPT !.promise = "rejected",
                      !.calls = Append(@, "reject"),
                      !.response = Settlement(error, statusCode, statusMessage, body),
                      !.value = Settlement(error, 0, "", "")]
       ELSE [@ EXCEPT !.promise = "resolved",
                      !.calls = Append(@, "resolve"),
                      !.response = Settlement(error, statusCode, statusMessage, body),
                      !.value = Settlement("", statusCode, statusMessage, body)]]
  /\ UNCHANGED <<authTokens, encryptLog, randomLog, ecdhLog, lookupLog, sendLog,
               gcmAuthToken, helperLog>>

----------------------------------------------------------------------------
(* The later push.js: setGCMAPIKey, sendWebPush(message, subscription,     *)
(* paddingLength)                                                          *)

\* setGCMAPIKey(key): a key that is refused throws and leaves the token.
setGCMAPIKey(key) ==
  /\ gcmAuthToken' = IF ~StartsWith(key, <<"A","I","z","a">>) \/ Len(key) # 40
                     THEN gcmAuthToken
                     ELSE Str(key)
  /\ UNCHANGED <<authTokens, encryptLog, randomLog, ecdhLog, lookupLog, sendLog, requests,
                 helperLog>>

\* A callback that resolves with every response, whatever its status.
requestCallback_v2_ResolveAll(i, error, statusCode, statusMessage, body) ==
  /\ i \in DOMAIN requests
  /\ requests[i].promise = "pending"
  /\ requests' = [requests EXCEPT ![i] =
       IF error # ""
       THEN [@ EXCEPT !.promise = "rejected",
                      !.calls = Append(@, "reject"),
                      !.response = Settlement(error, statusCode, statusMessage, body),
                      !.value = Outcome("", error, 0, "", "")]
       ELSE [@ EXCEPT !.promise = "resolved",
                      !.calls = Append(@, "resolve"),
                      !.response = Settlement(error, statusCode, statusMessage, body),
                      !.value = Outcome("", "", statusCode, statusMessage, body)]]
  /\ UNCHANGED <<authTokens, encryptLog, randomLog, ecdhLog, lookupLog, sendLog,
                 gcmAuthToken, helperLog>>

\* sendWebPush(message, subscription, paddingLength) of the later push.js,
\* up to the return of the promise.  Its encrypt is the one above, which
\* reads two arguments.  A request without a body has the empty buffer for
\* one.
sendWebPush_v2(message, subscription, paddingLength, random, ecdh) ==
  IF ~subscription.defined \/ ~Truthy(subscription.endpoint)
  THEN
    /\ sendLog' = Append(sendLog, SendRecord(subscription, message, "threw",
         Error("sendWebPush() expects a subscription endpoint with an endpoint parameter.", <<>>), 0))
    /\ UNCHANGED <<authTokens, encryptLog, randomLog, ecdhLog, lookupLog, requests,
                   gcmAuthToken, helperLog>>
  ELSE
    LET endpoint == Replace(subscription.endpoint.chars, GCM_URL, TEMP_GCM_URL)
        hasMessage == ~Falsy(message) /\ message.ascii + message.wide > 0
        payload == encrypt(message, subscription, random, ecdh)
        needsToken == Contains(endpoint, TEMP_GCM_URL)
        headers == [ TTL |-> Str(<<"0">>),
                     ContentEncoding |-> IF hasMessage THEN Str(<<"a","e","s","g","c","m">>)
                                         ELSE Undefined,
                     Encryption |-> IF hasMessage
                                    THEN Str(<<"s","a","l","t","=">> \o ub64(payload.salt))
                                    ELSE Undefined,
                     CryptoKey |-> IF hasMessage
                                   THEN Str(<<"d","h","=">> \o ub64(payload.serverPublicKey))
                                   ELSE Undefined,
                     Authorization |-> IF needsToken /\ Truthy(gcmAuthToken)
                                       THEN Str(<<"k","e","y","=">> \o gcmAuthToken.chars)
                                       ELSE Undefined ]
    IN
    /\ IF hasMessage
       THEN EncryptEffect(message, subscription, paddingLength, random, ecdh, payload)
       ELSE UNCHANGED <<encryptLog, randomLog, ecdhLog>>
    /\ UNCHANGED <<authTokens, lookupLog, gcmAuthToken, helperLog>>
    /\ IF hasMessage /\ payload.status = "threw"
       THEN /\ sendLog' = Append(sendLog,
                 SendRecord(subscription, message, "threw", payload.error, 0))
            /\ UNCHANGED requests
       ELSE IF needsToken /\ ~Truthy(gcmAuthToken)
       THEN /\ sendLog' = Append(sendLog, SendRecord(subscription, message, "threw",
                 Error("GCM requires an Auth Token parameter", <<>>), 0))
            /\ UNCHANGED requests
       ELSE /\ requests' = Append(requests,
                 [ url |-> endpoint,
                   body |-> IF hasMessage THEN payload.ciphertext ELSE NoBuffer,
                   headers |-> headers,
                   promise |-> "pending",
                   response |-> NoSettlement,
                   calls |-> <<>>,
                   value |-> NoOutcome ])
            /\ sendLog' = Append(sendLog,
                 SendRecord(subscription, message, "promise", NoError, Len(requests) + 1))

\* A callback that goes on after rejecting a 4xx response and calls resolve
\* as well; the promise keeps its first settlement.
requestCallback_v2_NoReturn(i, error, statusCode, statusMessage, body) ==
  /\ i \in DOMAIN requests
  /\ requests[i].promise = "pending"
  /\ requests' = [requests EXCEPT ![i] =
       IF error # ""
       THEN [@ EXCEPT !.promise = "rejected",
                      !.calls = Append(@, "reject"),
                      !.response = Settlement(error, statusCode, statusMessage, body),
                      !.value = Outcome("", error, 0, "", "")]
       ELSE IF statusCode >= 400 /\ statusCode < 500
       THEN [@ EXCEPT !.promise = "rejected",
                      !.calls = @ \o <<"reject", "resolve">>,
                      !.response = Settlement(error, statusCode, statusMessage, body),
                      !.value = Outcome("expired-subscription", "", statusCode,
                                        statusMessage, body)]
       ELSE [@ EXCEPT !.promise = "resolved",
                      !.calls = Append(@, "resolve"),
                      !.response = Settlement(error, statusCode, statusMessage, body),
                      !.value = Outcome("", "", statusCode, statusMessage, body)]]
  /\ UNCHANGED <<authTokens, encryptLog, randomLog, ecdhLog, lookupLog, sendLog,
                 gcmAuthToken, helperLog>>

\* The callback the later sendWebPush gives request.post(), called by the
\* transport with an error or with a response, for the i-th request.
requestCallback_v2(i, error, statusCode, statusMessage, body) ==
  /\ i \in DOMAIN requests
  /\ requests[i].promise = "pending"
  /\ requests' = [requests EXCEPT ![i] =
       IF error # ""
       THEN [@ EXCEPT !.promise = "rejected",
                      !.calls = Append(@, "reject"),
                      !.response = Settlement(error, statusCode, statusMessage, body),
                      !.value = Outcome("", error, 0, "", "")]
       ELSE IF statusCode >= 400 /\ statusCode < 500
       THEN [@ EXCEPT !.promise = "rejected",
                      !.calls = Append(@, "reject"),
                      !.response = Settlement(error, statusCode, statusMessage, body),
                      !.value = Outcome("expired-subscription", "", statusCode,
                                        statusMessage, body)]
       ELSE [@ EXCEPT !.promise = "resolved",
                      !.calls = Append(@, "resolve"),
                      !.response = Settlement(error, statusCode, statusMessage, body),
                      !.value = Outcome("", "", statusCode, statusMessage, body)]]
  /\ UNCHANGED <<authTokens, encryptLog, randomLog, ecdhLog, lookupLog, sendLog,
                 gcmAuthToken, helperLog>>

----------------------------------------------------------------------------
(* encrypt.js: the helpers it exports, called on their own *)

CreateContextCall(clientPublicKey, serverPublicKey) ==
  /\ helperLog' = [name |-> "createContext", clientPublicKey |-> clientPublicKey,
                   serverPublicKey |-> serverPublicKey,
                   result |-> createContext(clientPublicKey, serverPublicKey)]
  /\ UNCHANGED <<authTokens, encryptLog, randomLog, ecdhLog, lookupLog, sendLog, requests,
                 gcmAuthToken>>

CreateInfoCall(type, context) ==
  /\ helperLog' = [name |-> "createInfo", type |-> type, context |-> context,
                   result |-> createInfo(type, context)]
  /\ UNCHANGED <<authTokens, encryptLog, randomLog, ecdhLog, lookupLog, sendLog, requests,
                 gcmAuthToken>>

Init ==
  /\ authTokens = <<>>
  /\ encryptLog = <<>>
  /\ randomLog = <<>>
  /\ ecdhLog = <<>>
  /\ lookupLog = [called |-> FALSE, endpoint |-> <<>>, at |-> 0, result |-> Undefined]
  /\ sendLog = <<>>
  /\ requests = <<>>
  /\ gcmAuthToken = Undefined
  /\ helperLog = [name |-> "none"]

\* The encryption pipeline alone, over the whole range of inputs.
EncryptNext ==
  \E message \in Messages, subscription \in Subscriptions, paddingLength \in PaddingLengths :
    /\ Len(encryptLog) < MaxEncryptCalls
    /\ EncryptCall(message, subscription, paddingLength,
                   <<"salt1">>, KeyPair("serverPublic1", "serverPrivate1"))

EncryptSpec == Init /\ [][EncryptNext]_vars

\* Repeated calls of encrypt, over the range of the random source.
FreshNext ==
  \E message \in FreshMessages, subscription \in FreshSubscriptions,
     random \in Salts, ecdh \in KeyPairs :
    /\ Len(encryptLog) < MaxFreshCalls
    /\ EncryptCall(message, subscription, 0, random, ecdh)

FreshSpec == Init /\ [][FreshNext]_vars

\* The delivery layer: registrations, lookups, sends and transport callbacks
\* in any order.
Next ==
  \/ \E r \in Registrations :
       /\ Len(authTokens) < MaxAuthTokens
       /\ addAuthToken(r[1], r[2])
  \/ \E endpoint \in Endpoints : GetAuthTokenCall(endpoint)
  \/ \E send \in Sends :
       /\ Len(sendLog) < MaxSends
       /\ sendWebPush(send[1], send[2], <<"salt1">>, KeyPair("serverPublic1", "serverPrivate1"))
  \/ \E i \in DOMAIN requests, response \in Responses :
       requestCallback(i, response.error, response.statusCode, response.statusMessage,
                       response.body)

Spec == Init /\ [][Next]_vars

\* The delivery layer on its own: registrations, sends and transport
\* callbacks in any order, over every kind of argument.
SendNext ==
  \/ \E r \in SendRegistrations :
       /\ Len(authTokens) < MaxSendTokens
       /\ addAuthToken(r[1], r[2])
  \/ \E send \in SendCalls, random \in Salts :
       /\ Len(sendLog) < MaxSendCalls
       /\ sendWebPush(send[1], send[2], random, KeyPair("serverPublic2", "serverPrivate2"))
  \/ \E i \in DOMAIN requests, response \in SendResponses :
       requestCallback(i, response.error, response.statusCode, response.statusMessage,
                       response.body)

SendSpec == Init /\ [][SendNext]_vars

\* The exported helpers of encrypt.js, called with any arguments.
HelperNext ==
  \/ \E clientPublicKey \in ClientPublicKeys, serverPublicKey \in ServerPublicKeys :
       CreateContextCall(clientPublicKey, serverPublicKey)
  \/ \E type \in InfoTypes, context \in InfoContexts : CreateInfoCall(type, context)

HelperSpec == Init /\ [][HelperNext]_vars

\* The later delivery layer: the key set, sends and transport callbacks in
\* any order.
PaddedNext ==
  \/ \E key \in GcmApiKeys : setGCMAPIKey(key)
  \/ \E send \in PaddedSendCalls, random \in Salts, ecdh \in KeyPairs :
       /\ Len(sendLog) < MaxSendCalls
       /\ sendWebPush_v2(send[1], send[2], send[3], random, ecdh)
  \/ \E i \in DOMAIN requests, response \in StatusResponses :
       requestCallback_v2(i, response.error, response.statusCode, response.statusMessage,
                          response.body)

PaddedSpec == Init /\ [][PaddedNext]_vars

----------------------------------------------------------------------------
(* Vocabulary of the properties *)

\* The specification's names for the errors of the encryption pipeline.
ErrorKind(error) ==
  IF error.text = "Payload is too large: ${plaintext.length} bytes" THEN "PayloadTooLarge"
  ELSE IF error.text = "Subscription has no encryption details" THEN "MissingEncryptionKeys"
  ELSE IF error.text = "Subscription is missing some encryption details"
       THEN "MissingEncryptionKeys"
  ELSE IF error.text = "Subscription's Auth token is not 16 bytes."
       THEN "InvalidAuthTokenLength"
  ELSE IF error.text \in { "Subscription's client key (p256dh) is invalid.",
                           "Invalid client public key length",
                           "Failed to translate Buffer to a EC_POINT" }
       THEN "InvalidClientKey"
  ELSE "Other"

ByteLength(message) == BufferFromUtf8(message).length

\* The size limit of the specification: message bytes, the 2-byte prefix
\* and the requested padding together exceed 4078.
ExceedsLimit(call) == ByteLength(call.message) + 2 + call.paddingLength > 4078

KeysAbsent(subscription) == subscription.defined /\ ~subscription.keys.defined

SomeKeyAbsent(subscription) ==
  /\ subscription.defined
  /\ subscription.keys.defined
  /\ ~subscription.keys.p256dh.defined \/ ~subscription.keys.auth.defined

KeysPresent(subscription) ==
  /\ subscription.defined
  /\ subscription.keys.defined
  /\ TruthyB64(subscription.keys.p256dh)
  /\ TruthyB64(subscription.keys.auth)

AuthIs16Bytes(subscription) == BufferFromBase64(subscription.keys.auth).length = 16

ClientKeyValid(subscription) ==
  LET key == BufferFromBase64(subscription.keys.p256dh) IN
  key.length = 65 /\ IsCurvePoint(key)

ValidSubscription(subscription) ==
  KeysPresent(subscription) /\ AuthIs16Bytes(subscription) /\ ClientKeyValid(subscription)

----------------------------------------------------------------------------
(* Properties of encrypt: input checks *)

\* C1 (as stated): every encrypt call whose message bytes + 2 + padding
\* exceed 4078 throws PayloadTooLarge, and the error reports the maximum,
\* the message length and the padding length.
C1_PayloadTooLarge ==
  \A k \in DOMAIN encryptLog :
    LET call == encryptLog[k] IN
    ExceedsLimit(call) =>
      /\ call.outcome.status = "threw"
      /\ ErrorKind(call.outcome.error) = "PayloadTooLarge"
      /\ call.outcome.error.values = <<4078, ByteLength(call.message), call.paddingLength>>

\* C2 (as stated): a call within the size limit whose subscription has no
\* keys, or lacks p256dh or auth, throws a missing-encryption-keys error
\* before a salt or a key pair is generated; no keys object reports "has no
\* encryption details", a keys object lacking one key reports "is missing
\* some encryption details".
C2_MissingEncryptionKeys ==
  \A k \in DOMAIN encryptLog :
    LET call == encryptLog[k] IN
    /\ ~ExceedsLimit(call) /\ KeysAbsent(call.subscription) =>
         /\ call.outcome.status = "threw"
         /\ call.outcome.error.text = "Subscription has no encryption details"
         /\ ~call.outcome.drewSalt /\ ~call.outcome.generatedKeys
    /\ ~ExceedsLimit(call) /\ SomeKeyAbsent(call.subscription) =>
         /\ call.outcome.status = "threw"
         /\ call.outcome.error.text = "Subscription is missing some encryption details"
         /\ ~call.outcome.drewSalt /\ ~call.outcome.generatedKeys

\* C3 (as stated): a call within the size limit whose keys are present and
\* whose auth does not decode to 16 bytes throws "Subscription's Auth token
\* is not 16 bytes." and returns no result.
C3_InvalidAuthTokenLength ==
  \A k \in DOMAIN encryptLog :
    LET call == encryptLog[k] IN
    /\ ~ExceedsLimit(call)
    /\ KeysPresent(call.subscription)
    /\ ~AuthIs16Bytes(call.subscription)
    => /\ call.outcome.status = "threw"
       /\ call.outcome.error.text = "Subscription's Auth token is not 16 bytes."

FirstFailingCheck(call) ==
  IF ExceedsLimit(call) THEN "PayloadTooLarge"
  ELSE IF ~KeysPresent(call.subscription) THEN "MissingEncryptionKeys"
  ELSE IF ~AuthIs16Bytes(call.subscription) THEN "InvalidAuthTokenLength"
  ELSE IF ~ClientKeyValid(call.subscription) THEN "InvalidClientKey"
  ELSE "none"

\* C5 (as stated): a call that violates input checks throws the error of
\* the first failing check in the order size, keys, auth length, client key.
C5_ValidationOrder ==
  \A k \in DOMAIN encryptLog :
    LET call == encryptLog[k] IN
    call.subscription.defined /\ FirstFailingCheck(call) # "none" =>
      /\ call.outcome.status = "threw"
      /\ ErrorKind(call.outcome.error) = FirstFailingCheck(call)

\* C6: a call with a valid subscription (with or without an endpoint) and a
\* message of at most 4078 bytes including the requested padding returns a
\* 16-byte salt and a 65-byte serverPublicKey.
C6_ValidCallSucceeds ==
  \A k \in DOMAIN encryptLog :
    LET call == encryptLog[k] IN
    /\ ValidSubscription(call.subscription)
    /\ ByteLength(call.message) + call.paddingLength <= 4078
    => /\ call.outcome.status = "returned"
       /\ call.outcome.salt.length = 16
       /\ call.outcome.serverPublicKey.length = 65

\* C6 witness: a 4078-byte message, no padding, a subscription without an
\* endpoint: the call has returned.
C6_Witness ==
  \E k \in DOMAIN encryptLog :
    /\ encryptLog[k].subscription = NO_ENDPOINT_SUBSCRIPTION
    /\ ByteLength(encryptLog[k].message) = 4078
    /\ encryptLog[k].paddingLength = 0
    /\ encryptLog[k].outcome.status = "returned"

\* C7 (as stated): the ciphertext of a successful call is 2 + message bytes
\* + requested padding + 16 bytes long.
C7_CiphertextLength ==
  \A k \in DOMAIN encryptLog :
    LET call == encryptLog[k] IN
    call.outcome.status = "returned" =>
      call.outcome.ciphertext.length =
        2 + ByteLength(call.message) + call.paddingLength + 16

----------------------------------------------------------------------------
(* Properties of encrypt: randomness *)

\* The number of calls among the first k that reached crypto.randomBytes,
\* and the number that reached generateKeys.
DrawIndex(k) == Cardinality({ j \in 1..k : encryptLog[j].outcome.drewSalt })

KeyIndex(k) == Cardinality({ j \in 1..k : encryptLog[j].outcome.generatedKeys })

Returned(k) == encryptLog[k].outcome.status = "returned"

\* C8: the random source and the key generator are asked once per call that
\* reaches them; the salt and the public key a successful call returns are
\* the 16 bytes and the key pair drawn in that very call; so two successful
\* calls return different salts (keys, ciphertexts) whenever the values
\* drawn for them differ, identical inputs included.
C8_Freshness ==
  /\ Len(randomLog) = DrawIndex(Len(encryptLog))
  /\ Len(ecdhLog) = KeyIndex(Len(encryptLog))
  /\ \A k \in DOMAIN encryptLog :
       Returned(k) =>
         /\ encryptLog[k].outcome.drewSalt /\ encryptLog[k].outcome.generatedKeys
         /\ encryptLog[k].outcome.salt = Buf(16, randomLog[DrawIndex(k)])
         /\ encryptLog[k].outcome.serverPublicKey = ecdhLog[KeyIndex(k)].publicKey
  /\ \A i, j \in DOMAIN encryptLog :
       i < j /\ Returned(i) /\ Returned(j) =>
         /\ randomLog[DrawIndex(i)] # randomLog[DrawIndex(j)] =>
              /\ encryptLog[i].outcome.salt # encryptLog[j].outcome.salt
              /\ encryptLog[i].outcome.ciphertext # encryptLog[j].outcome.ciphertext
         /\ ecdhLog[KeyIndex(i)] # ecdhLog[KeyIndex(j)] =>
              /\ encryptLog[i].outcome.serverPublicKey # encryptLog[j].outcome.serverPublicKey
              /\ encryptLog[i].outcome.ciphertext # encryptLog[j].outcome.ciphertext

\* C8 witness: two successful calls with the same message and subscription,
\* for which the random source returned different salts and the key
\* generator the same key pair; the salts returned differ.
C8_Witness ==
  \E i, j \in DOMAIN encryptLog :
    /\ i < j /\ Returned(i) /\ Returned(j)
    /\ encryptLog[i].message = encryptLog[j].message
    /\ encryptLog[i].subscription = encryptLog[j].subscription
    /\ encryptLog[i].random # encryptLog[j].random
    /\ encryptLog[i].ecdh = encryptLog[j].ecdh
    /\ encryptLog[i].outcome.salt # encryptLog[j].outcome.salt

----------------------------------------------------------------------------
(* Properties of the auth-token registry *)

\* p is a substring of s: some run of consecutive characters of s is p,
\* character for character.
IsSubstring(p, s) ==
  \E first \in 1..(Len(s) - Len(p) + 1) : SubSeq(s, first, first + Len(p) - 1) = p

MatchingEntries(registry, endpoint) ==
  { i \in DOMAIN registry : IsSubstring(registry[i].pattern, endpoint) }

\* The token of the earliest-registered matching entry, none without a match.
EarliestMatch(registry, endpoint) ==
  LET matching == MatchingEntries(registry, endpoint) IN
  IF matching = {} THEN Undefined
  ELSE Str(registry[CHOOSE i \in matching : \A j \in matching : i <= j].token)

\* C10: whatever the interleaving of addAuthToken, getAuthToken and
\* sendWebPush, a getAuthToken(endpoint) call returns the token of the
\* earliest-registered entry whose pattern is a substring of the endpoint
\* and no token when none matches; the registry changes only in
\* addAuthToken steps, by one entry appended, and every earlier entry keeps
\* its place.
C10_Registry ==
  /\ [](lookupLog.called =>
          lookupLog.result =
            EarliestMatch(SubSeq(authTokens, 1, lookupLog.at), lookupLog.endpoint))
  /\ [][ authTokens' # authTokens =>
           /\ Len(authTokens') = Len(authTokens) + 1
           /\ SubSeq(authTokens', 1, Len(authTokens)) = authTokens
           /\ UNCHANGED <<encryptLog, randomLog, ecdhLog, lookupLog, sendLog, requests,
               gcmAuthToken, helperLog>> ]_vars

\* C10 witness: after a send, with two entries of the same pattern and
\* different tokens registered, a lookup of a matching endpoint has returned
\* the token of the first.
C10_Witness ==
  /\ Len(sendLog) > 0
  /\ Len(authTokens) = 2
  /\ authTokens[1].pattern = authTokens[2].pattern
  /\ authTokens[1].token # authTokens[2].token
  /\ lookupLog.called
  /\ lookupLog.at = 2
  /\ IsSubstring(authTokens[1].pattern, lookupLog.endpoint)
  /\ lookupLog.result = Str(authTokens[1].token)

----------------------------------------------------------------------------
(* The delivery layer: sendWebPush *)

MissingEndpointText ==
  "sendWebPush() expects a subscription endpoint with an endpoint parameter and a string send with the push message."

SubscriptionAbsent(call) == ~call.subscription.defined

EndpointAbsent(call) == call.subscription.defined /\ ~call.subscription.endpoint.defined

MessageAbsent(call) == call.message.type = "undefined"

MessageNotString(call) == call.message.type \notin {"undefined", "string"}

\* C11: a call of sendWebPush whose subscription is absent or has no
\* endpoint, or whose message is absent or is not a string, throws the
\* 'sendWebPush() expects a subscription endpoint ...' error.
C11_MissingEndpoint ==
  \A i \in DOMAIN sendLog :
    LET call == sendLog[i] IN
    (\/ SubscriptionAbsent(call)
     \/ EndpointAbsent(call)
     \/ MessageAbsent(call)
     \/ MessageNotString(call))
      => /\ call.status = "threw"
         /\ call.error = Error(MissingEndpointText, <<>>)

\* A call with a sound subscription and an array for a message has thrown
\* that error.
C11_Witness ==
  \E i \in DOMAIN sendLog :
    /\ sendLog[i].subscription = VALID_SUBSCRIPTION
    /\ MessageNotString(sendLog[i])
    /\ sendLog[i].status = "threw"
    /\ sendLog[i].error = Error(MissingEndpointText, <<>>)

\* The URL the specification wants for an endpoint: the legacy base URL at
\* its start replaced, the rest kept; any other endpoint as it is.
RewrittenEndpoint(endpoint) ==
  IF StartsWith(endpoint, GCM_URL)
  THEN TEMP_GCM_URL \o SubSeq(endpoint, Len(GCM_URL) + 1, Len(endpoint))
  ELSE endpoint

\* C12: the URL given to the transport is the subscription's endpoint with
\* the legacy gateway's base URL replaced by the transitional one when the
\* endpoint begins with it, the rest of the endpoint kept; an endpoint that
\* does not begin with the legacy base URL is given to the transport as it is.
C12_EndpointRewrite ==
  \A i \in DOMAIN sendLog :
    sendLog[i].status = "promise"
      => requests[sendLog[i].request].url
           = RewrittenEndpoint(sendLog[i].subscription.endpoint.chars)

\* text is the base64 of the buffer with every '+' written '-', every '/'
\* written '_' and the '=' padding at its end left out.
IsUrlSafeBase64Of(text, buffer) ==
  LET base64 == toStringBase64(buffer) IN
  /\ Len(text) = Cardinality({k \in DOMAIN base64 : base64[k] # "="})
  /\ \A k \in DOMAIN text :
       text[k] = IF base64[k] = "+" THEN "-"
                 ELSE IF base64[k] = "/" THEN "_"
                 ELSE base64[k]

\* A header value is `name` followed by the url-safe base64 of the buffer.
IsHeaderOf(header, name, buffer) ==
  /\ header.defined
  /\ StartsWith(header.chars, name)
  /\ IsUrlSafeBase64Of(SubSeq(header.chars, Len(name) + 1, Len(header.chars)), buffer)

MissingAuthTokenText ==
  "GCM requires an Auth Token. Please add one using theaddAuthToken() method."

\* The call a step has added to sendLog.
NewCall == sendLog'[Len(sendLog')]

\* The step is a call of sendWebPush whose arguments were valid and whose
\* encryption returned a result.
CallPassedEncryption ==
  /\ Len(sendLog') = Len(sendLog) + 1
  /\ Len(encryptLog') = Len(encryptLog) + 1
  /\ encryptLog'[Len(encryptLog')].outcome.status = "returned"

\* The token the registry resolves for the endpoint of the call being made;
\* an empty string is no token.
ResolvedToken == EarliestMatch(authTokens, NewCall.subscription.endpoint.chars)

\* C14: in a call of sendWebPush, the request carries 'Authorization:
\* key=<token>' exactly when the registry resolves a token for the endpoint;
\* a call for an endpoint of the legacy gateway for which no token is resolved
\* throws the 'GCM requires an Auth Token...' error and posts nothing.
C14_Authorization ==
  [][ CallPassedEncryption =>
        /\ NewCall.status = "promise" =>
             requests'[NewCall.request].headers.Authorization =
               IF Truthy(ResolvedToken)
               THEN Str(<<"k","e","y","=">> \o ResolvedToken.chars)
               ELSE Undefined
        /\ (StartsWith(NewCall.subscription.endpoint.chars, GCM_URL) /\ ~Truthy(ResolvedToken))
             => /\ NewCall.status = "threw"
                /\ NewCall.error = Error(MissingAuthTokenText, <<>>)
                /\ requests' = requests ]_vars

\* A request for an endpoint of the legacy gateway has been posted with the
\* registered token in its Authorization header.
C14_Witness ==
  \E i \in DOMAIN sendLog :
    /\ sendLog[i].status = "promise"
    /\ StartsWith(sendLog[i].subscription.endpoint.chars, GCM_URL)
    /\ authTokens # <<>>
    /\ requests[sendLog[i].request].headers.Authorization
         = Str(<<"k","e","y","=">> \o authTokens[1].token)

\* The calls of sendWebPush that returned a promise.
PromiseCalls == { i \in DOMAIN sendLog : sendLog[i].status = "promise" }

\* C15: a call of sendWebPush that passes validation and encryption posts
\* one request, whose body is the ciphertext encrypt returned for the call's
\* message and subscription; no step other than a call of sendWebPush posts
\* a request, whatever the transport answers, and a posted request keeps its
\* URL, body and headers.
C15_PostedOnce ==
  /\ [](/\ Len(requests) = Cardinality(PromiseCalls)
        /\ \A i \in PromiseCalls :
             /\ sendLog[i].request \in DOMAIN requests
             /\ \A j \in PromiseCalls : sendLog[j].request = sendLog[i].request => j = i
             /\ \E k \in DOMAIN encryptLog :
                  /\ encryptLog[k].message = sendLog[i].message
                  /\ encryptLog[k].subscription = sendLog[i].subscription
                  /\ encryptLog[k].outcome.status = "returned"
                  /\ requests[sendLog[i].request].body = encryptLog[k].outcome.ciphertext)
  /\ [][ /\ Len(requests') > Len(requests) =>
             /\ Len(requests') = Len(requests) + 1
             /\ Len(sendLog') = Len(sendLog) + 1
             /\ NewCall.status = "promise"
             /\ NewCall.request = Len(requests')
         /\ \A i \in DOMAIN requests :
             /\ i \in DOMAIN requests'
             /\ requests'[i].url = requests[i].url
             /\ requests'[i].body = requests[i].body
             /\ requests'[i].headers = requests[i].headers ]_vars

\* The transport has reported an error for the request of a call, and that
\* request is the only one posted.
C15_Witness ==
  /\ Len(requests) = 1
  /\ Cardinality(PromiseCalls) = 1
  /\ requests[1].promise = "rejected"
  /\ requests[1].response.error # ""

\* The requests the transport has answered with a response.
Answered == { i \in DOMAIN requests : requests[i].promise # "pending" /\ requests[i].response.error = "" }

Failed == { i \in DOMAIN requests : requests[i].response.error # "" }

\* C17: when the transport reports an error, the promise of the call is
\* rejected with that error and nothing else; it is not resolved then or
\* later, and no request is posted in its place.
C17_TransportError ==
  /\ [](\A i \in Failed :
          /\ requests[i].promise = "rejected"
          /\ requests[i].value = Settlement(requests[i].response.error, 0, "", ""))
  /\ [][ \A i \in Failed :
           /\ i \in DOMAIN requests'
           /\ requests'[i] = requests[i]
           /\ (Len(requests') > Len(requests) => Len(sendLog') > Len(sendLog)) ]_vars

\* The transport has reported ECONNRESET for a request and the promise
\* holds that error.
C17_Witness ==
  \E i \in Failed :
    /\ requests[i].response.error = "ECONNRESET"
    /\ requests[i].promise = "rejected"
    /\ requests[i].value.error = "ECONNRESET"

\* The specification's names for the errors sendWebPush throws.
SendErrorKind(error) ==
  IF error.text = MissingEndpointText THEN "MissingEndpoint"
  ELSE IF error.text = MissingAuthTokenText THEN "MissingAuthToken"
  ELSE ErrorKind(error)

ValidationFailures ==
  { "MissingEndpoint", "MissingEncryptionKeys", "InvalidAuthTokenLength", "InvalidClientKey",
    "PayloadTooLarge", "MissingAuthToken" }

\* The calls of sendWebPush that threw.
ThrownCalls == { i \in DOMAIN sendLog : sendLog[i].status = "threw" }

\* The arguments of the call fail one of the input checks of the
\* specification that depend on the arguments alone.
FailsInputCheck(call) ==
  \/ SubscriptionAbsent(call)
  \/ EndpointAbsent(call)
  \/ call.message.type = "string" /\ ByteLength(call.message) + 2 > 4078
  \/ ~KeysPresent(call.subscription)
  \/ ~AuthIs16Bytes(call.subscription)
  \/ ~ClientKeyValid(call.subscription)

\* C18 (as stated): every input-validation failure of sendWebPush
\* (MissingEndpoint, MissingEncryptionKeys, InvalidAuthTokenLength,
\* InvalidClientKey, PayloadTooLarge, MissingAuthToken) is thrown by the call
\* itself: a call whose arguments fail a check throws, a call that throws
\* posts no request and returns no promise, an error of encrypt is the error
\* the call throws, and no promise is ever rejected with such an error.
C18_SynchronousFailure ==
  /\ [](/\ \A i \in DOMAIN sendLog :
             FailsInputCheck(sendLog[i]) => sendLog[i].status = "threw"
        /\ \A i \in ThrownCalls :
             /\ sendLog[i].request = 0
             /\ SendErrorKind(sendLog[i].error) \in ValidationFailures
        /\ Len(requests) = Cardinality(PromiseCalls)
        /\ \A i \in DOMAIN requests :
             requests[i].promise = "rejected" => requests[i].response.error # "")
  /\ [][ Len(sendLog') = Len(sendLog) + 1 =>
           /\ NewCall.status = "threw" => requests' = requests
           /\ (/\ StartsWith(NewCall.subscription.endpoint.chars, GCM_URL)
               /\ ~Truthy(ResolvedToken))
                => NewCall.status = "threw"
           /\ (/\ Len(encryptLog') = Len(encryptLog) + 1
               /\ encryptLog'[Len(encryptLog')].outcome.error # NoError)
                => /\ NewCall.status = "threw"
                   /\ NewCall.error = encryptLog'[Len(encryptLog')].outcome.error
                   /\ requests' = requests ]_vars

----------------------------------------------------------------------------
(* Properties of createContext and createInfo *)

\* The k-th byte (from 1) of a key.
KeyByte(key, k) == key.data[1] \o "[" \o ToString(k) \o "]"

InvalidKeyLengthTexts ==
  { "Invalid client public key length", "Invalid server public key length" }

\* C19: for two keys of 65 bytes createContext returns 135 bytes: byte 0 is
\* zero, bytes 1-2 are 65 as a big-endian 16-bit number, bytes 3-67 the
\* client key, bytes 68-69 again 65, bytes 70-134 the server key; with a key
\* of any other length it throws an invalid-key-length error.
C19_ContextLayout ==
  helperLog.name = "createContext" =>
    LET client == helperLog.clientPublicKey
        server == helperLog.serverPublicKey
        result == helperLog.result
        byte(offset) == result.value.data[offset + 1]
    IN
    IF client.length = 65 /\ server.length = 65
    THEN /\ ~Threw(result)
         /\ result.value.length = 135
         /\ Len(result.value.data) = 135
         /\ byte(0) = "NUL"
         /\ byte(1) = "0" /\ byte(2) = "65"
         /\ \A k \in 1..65 : byte(2 + k) = KeyByte(client, k)
         /\ byte(68) = "0" /\ byte(69) = "65"
         /\ \A k \in 1..65 : byte(69 + k) = KeyByte(server, k)
    ELSE /\ Threw(result)
         /\ result.error.text \in InvalidKeyLengthTexts

\* createContext has returned the context of two 65-byte keys.
C19_Witness ==
  /\ helperLog.name = "createContext"
  /\ helperLog.clientPublicKey = Buf(65, <<"clientPoint2">>)
  /\ helperLog.serverPublicKey = Buf(65, <<"serverPublic2">>)
  /\ ~Threw(helperLog.result)
  /\ helperLog.result.value.data[4] = "clientPoint2[1]"
  /\ helperLog.result.value.data[135] = "serverPublic2[65]"

\* C20: for an ASCII type and a context of 135 bytes createInfo returns
\* 159 + len(type) bytes: 'Content-Encoding: ', the type, one zero byte,
\* 'P-256' and the context, one after the other with nothing between and
\* nothing written twice; with a context of any other length it throws an
\* invalid-context-length error.
C20_InfoLayout ==
  helperLog.name = "createInfo" =>
    LET type == helperLog.type
        context == helperLog.context
        result == helperLog.result
    IN
    IF context.length = 135
    THEN /\ ~Threw(result)
         /\ result.value.length = 159 + Len(type)
         /\ result.value.data =
              <<"C","o","n","t","e","n","t","-","E","n","c","o","d","i","n","g",":"," ">>
                \o type \o <<"NUL">> \o <<"P","-","2","5","6">> \o context.data
    ELSE /\ Threw(result)
         /\ result.error.text = "Context argument has invalid size"

\* createInfo has returned the info of the type 'nonce' and a context that
\* createContext made: 164 bytes.
C20_Witness ==
  /\ helperLog.name = "createInfo"
  /\ helperLog.type = <<"n","o","n","c","e">>
  /\ helperLog.context.length = 135
  /\ helperLog.context.data[4] = "clientPoint[1]"
  /\ ~Threw(helperLog.result)
  /\ helperLog.result.value.length = 164
  /\ Len(helperLog.result.value.data) = 164

----------------------------------------------------------------------------
(* The order of token resolution and endpoint rewrite *)

\* The registry entries whose pattern is found in the endpoint the
\* subscription of the call holds.
MatchesOriginal ==
  { k \in DOMAIN authTokens :
      IsSubstring(authTokens[k].pattern, NewCall.subscription.endpoint.chars) }

\* C21: sendWebPush resolves the token, and tests for the legacy gateway, on
\* the endpoint as the subscription holds it, and posts to the rewritten
\* URL: an Authorization header is always the token of an entry whose
\* pattern is found in the original endpoint; when no pattern is found there
\* the request has no Authorization header, whatever is found in the URL it
\* is posted to, and a call for an endpoint of the legacy gateway throws the
\* 'GCM requires an Auth Token...' error and posts nothing; a request for an
\* endpoint of the legacy gateway goes to the transitional gateway's URL.
C21_ResolvedBeforeRewrite ==
  [][ CallPassedEncryption =>
        LET original == NewCall.subscription.endpoint.chars
            posted == requests'[NewCall.request]
        IN
        /\ NewCall.status = "promise" =>
             /\ posted.headers.Authorization.defined =>
                  \E k \in MatchesOriginal :
                    posted.headers.Authorization
                      = Str(<<"k","e","y","=">> \o authTokens[k].token)
             /\ MatchesOriginal = {} => ~posted.headers.Authorization.defined
             /\ StartsWith(original, GCM_URL) =>
                  /\ posted.url
                       = TEMP_GCM_URL \o SubSeq(original, Len(GCM_URL) + 1, Len(original))
                  /\ posted.headers.Authorization.defined
        /\ (StartsWith(original, GCM_URL) /\ MatchesOriginal = {})
             => /\ NewCall.status = "threw"
                /\ NewCall.error = Error(MissingAuthTokenText, <<>>)
                /\ requests' = requests ]_vars

\* With the host of the transitional gateway as the only pattern registered,
\* a call for a GCM subscription has passed encryption and thrown the
\* missing-token error: the pattern is in the rewritten URL and not in the
\* endpoint.
C21_Witness ==
  /\ Len(authTokens) = 1
  /\ authTokens[1].pattern = TEMP_GCM_HOST
  /\ \E i \in DOMAIN sendLog :
       /\ sendLog[i].subscription = GCM_SUBSCRIPTION
       /\ ~IsSubstring(TEMP_GCM_HOST, sendLog[i].subscription.endpoint.chars)
       /\ IsSubstring(TEMP_GCM_HOST, RewrittenEndpoint(sendLog[i].subscription.endpoint.chars))
       /\ encryptLog # <<>>
       /\ encryptLog[Len(encryptLog)].outcome.status = "returned"
       /\ sendLog[i].status = "threw"
       /\ sendLog[i].error = Error(MissingAuthTokenText, <<>>)
       /\ requests = <<>>

----------------------------------------------------------------------------
(* The settlement of the promise *)

\* The transport has not called back for the request.
Outstanding(request) == request.response = NoSettlement

\* C22: the promise sendWebPush returns is settled at most once and only by
\* the callback of the transport: a request is posted with its promise
\* pending; the promise stays pending, with neither resolve nor reject
\* called, for as long as the transport has not called back; the step in
\* which the transport calls back calls exactly one of resolve and reject,
\* so that a response that is rejected is not resolved as well; and a
\* settled promise is never touched again.
C22_SettledOnce ==
  [][ /\ \A i \in DOMAIN requests' :
           Outstanding(requests'[i]) <=>
             (requests'[i].promise = "pending" /\ requests'[i].calls = <<>>)
      /\ \A i \in DOMAIN requests' \ DOMAIN requests : Outstanding(requests'[i])
      /\ \A i \in DOMAIN requests :
           /\ i \in DOMAIN requests'
           /\ ~Outstanding(requests[i]) => requests'[i] = requests[i]
           /\ (Outstanding(requests[i]) /\ ~Outstanding(requests'[i])) =>
                /\ Len(requests'[i].calls) = 1
                /\ requests'[i].calls[1] = "reject" <=> requests'[i].promise = "rejected"
                /\ requests'[i].calls[1] = "resolve" <=> requests'[i].promise = "resolved" ]_vars

\* The transport has answered a request with 404 and its callback has
\* called reject and nothing else.
C22_Witness ==
  \E i \in DOMAIN requests :
    /\ requests[i].response.error = ""
    /\ requests[i].response.statusCode = 404
    /\ requests[i].calls = <<"reject">>
    /\ requests[i].promise = "rejected"

====
